---- MODULE Spec2Model ----
(***************************************************************************)
(* State-machine model of src/Overseer.py: the run loop of main(), the    *)
(* log monitor monitor_trigger_file(), execute_script(), the serial       *)
(* reader thread and shutdown_all_processes(), with the operator          *)
(* interrupt handled in the __main__ block.                               *)
(*                                                                         *)
(* The statements whose only content is a commented-out print (the bodies *)
(* of the except clauses at lines 52, 115 and 178) are modelled as empty  *)
(* bodies: the handler swallows the exception and control falls through.  *)
(***************************************************************************)
EXTENDS Naturals, Integers, Sequences, FiniteSets, TLC

(* ------------------------------ bounds -------------------------------- *)
MaxRuns == 2
MaxFile == 3
MaxScripts == 2

(* ------------------------- program constants -------------------------- *)
TRIGGER_SCRIPT_NAME == "Gnuradio_TX"
\* "Finished", abstracted to a two-symbol word so that a write can split it
TRIGGER_WORD == <<"F", "d">>
SupportedTypes == {"shell", "local", "conda"}

(* --------------------------- input universes -------------------------- *)
Names == {TRIGGER_SCRIPT_NAME, "B"}
Types == {"local", "docker"}
Chars == {"F", "d", "\n"}
\* a disabled entry is skipped before its type is looked at (line 183), so
\* one type stands for all of them
ScriptSpecs ==
    {c \in [name : Names, enabled : BOOLEAN, type : Types] :
        ~c.enabled => c.type = "local"}

UniqueNames(s) == \A i, j \in 1..Len(s) : s[i].name = s[j].name => i = j

SeqsUpTo(S, n) == UNION {[1..k -> S] : k \in 0..n}

\* scripts_to_run lists the configuration may carry (names unique, spec 3)
Configs == {s \in SeqsUpTo(ScriptSpecs, MaxScripts) : UniqueNames(s)}

NoPath == <<>>
NoConn == 0

VARIABLES
    config_ok,          \* CONFIG_FILE can be opened and parsed
    serial_config,      \* config_data.get('serial_port') is present
    scripts,            \* config_data['scripts_to_run']
    pc,                 \* position of the main thread
    run_number,
    trigger_log_path,
    idx,                \* position of the for loop over scripts_to_run
    active_processes,   \* dict name -> handle, as a sequence of <<name, pid>>
    stop_event,
    serial_connection,  \* global: NoConn (None) or the id of a connection
    serial_thread,      \* global: NoConn (None) or the id of a thread
    ser_open,           \* connections whose is_open is true
    thr_alive,          \* serial reader threads that are still running
    alive,              \* child processes still running, <<run, index>>
    log_open,           \* children whose log_file handle is open
    log_reclosed,       \* close() was called on a log_file already closed
    forced,             \* the child being shut down outlasted wait(timeout=5)
    log_exists,         \* the trigger script's log of this run exists
    log,                \* its contents: run_<run_number>/Gnuradio_TX.txt
    log_readable,       \* reading it succeeds (no I/O or decoding error)
    pos,                \* characters the monitor has consumed
    mon_result,         \* how monitor_trigger_file returned
    attempts,           \* execute_script calls of this run: <<index, outcome>>
    sd_ret,             \* call site of shutdown_all_processes
    sd_list,            \* list(active_processes.items()) still to visit
    loop_exit,          \* which break left the while loop
    exit_via,           \* how the interpreter ended
    exit_code,
    snap                \* state recorded between two successive shutdowns

vars == <<config_ok, serial_config, scripts, pc, run_number, trigger_log_path,
          idx, active_processes, stop_event, serial_connection, serial_thread,
          ser_open, thr_alive, alive, log_open, log_reclosed, forced,
          log_exists, log, log_readable, pos,
          mon_result, attempts, sd_ret, sd_list, loop_exit,
          exit_via, exit_code, snap>>

cfgVars == <<config_ok, serial_config, scripts>>
serVars == <<serial_connection, serial_thread, ser_open, thr_alive>>
procVars == <<alive, log_open, log_reclosed, forced>>
monVars == <<pos, mon_result>>
files == <<log_exists, log, log_readable>>
exitVars == <<loop_exit, exit_via, exit_code>>

(* ------------------------------ helpers ------------------------------- *)
\* trigger_word in line
Contains(line, word) ==
    \E i \in 1..Len(line) :
        /\ i + Len(word) - 1 <= Len(line)
        /\ SubSeq(line, i, i + Len(word) - 1) = word

\* f.readline() with p characters already consumed: up to and including the
\* next newline, or whatever is there when the file ends first
ReadLine(content, p) ==
    LET nl == {k \in (p + 1)..Len(content) : content[k] = "\n"}
    IN  IF nl = {} THEN SubSeq(content, p + 1, Len(content))
        ELSE SubSeq(content, p + 1, CHOOSE k \in nl : \A m \in nl : k <= m)

\* dict lookups and updates on the <<name, pid>> sequence
DictKeys(d) == {d[i][1] : i \in 1..Len(d)}

DictSet(d, k, v) ==
    IF k \in DictKeys(d)
    THEN [i \in 1..Len(d) |-> IF d[i][1] = k THEN <<k, v>> ELSE d[i]]
    ELSE Append(d, <<k, v>>)

\* os.path.join(run_log_dir, f"{name}.txt")
LogPath(run, name) == <<run, name>>

(* ------------------------------- Init --------------------------------- *)
Init ==
    /\ config_ok \in BOOLEAN
    /\ serial_config \in BOOLEAN
    /\ scripts \in Configs
    /\ pc = "load"
    /\ run_number = 1
    /\ trigger_log_path = NoPath
    /\ idx = 1
    /\ active_processes = <<>>
    /\ stop_event = FALSE
    /\ serial_connection = NoConn
    /\ serial_thread = NoConn
    /\ ser_open = {}
    /\ thr_alive = {}
    /\ alive = {}
    /\ log_open = {}
    /\ log_reclosed = FALSE
    /\ forced = FALSE
    /\ log_exists = FALSE
    /\ log = <<>>
    /\ log_readable = TRUE
    /\ pos = 0
    /\ mon_result = "none"
    /\ attempts = <<>>
    /\ sd_ret = "none"
    /\ sd_list = <<>>
    /\ loop_exit = "none"
    /\ exit_via = "none"
    /\ exit_code = -1
    /\ snap = <<>>

(* --------------------------- main: start-up --------------------------- *)
\* main, lines 153-158: load the configuration or sys.exit(1)
LoadConfig ==
    /\ pc = "load"
    /\ IF config_ok
       THEN /\ pc' = "run_start"
            /\ UNCHANGED exitVars
       ELSE /\ pc' = "done"
            /\ exit_via' = "config"
            /\ exit_code' = 1
            /\ UNCHANGED loop_exit
    /\ UNCHANGED <<cfgVars, run_number, trigger_log_path, idx,
                   active_processes, stop_event, serVars, procVars, files,
                   monVars, attempts, sd_ret, sd_list, snap>>

\* StartRun without the trigger_log_path = None of line 168
StartRun_KeepsPath ==
    /\ pc = "run_start"
    /\ attempts' = <<>>
    /\ mon_result' = "none"
    /\ pc' = "serial"
    /\ UNCHANGED <<cfgVars, run_number, trigger_log_path, idx,
                   active_processes, stop_event, serVars, procVars, files,
                   pos, sd_ret, sd_list, exitVars, snap>>

\* main, lines 160-168: head of the while loop
StartRun ==
    /\ pc = "run_start"
    /\ trigger_log_path' = NoPath
    /\ attempts' = <<>>
    /\ mon_result' = "none"
    /\ pc' = "serial"
    /\ UNCHANGED <<cfgVars, run_number, idx, active_processes, stop_event,
                   serVars, procVars, files, pos, sd_ret, sd_list, exitVars,
                   snap>>

\* StartSerial where a failed open ends the controller
StartSerial_Fatal ==
    /\ pc = "serial"
    /\ IF serial_config
       THEN \E opened \in BOOLEAN :
              IF opened
              THEN /\ serial_connection' = run_number
                   /\ serial_thread' = run_number
                   /\ ser_open' = ser_open \cup {run_number}
                   /\ thr_alive' = thr_alive \cup {run_number}
                   /\ idx' = 1
                   /\ pc' = "scripts"
                   /\ UNCHANGED exitVars
              ELSE /\ pc' = "done"
                   /\ exit_via' = "crash"
                   /\ exit_code' = 1
                   /\ UNCHANGED <<serVars, idx, loop_exit>>
       ELSE /\ idx' = 1
            /\ pc' = "scripts"
            /\ UNCHANGED <<serVars, exitVars>>
    /\ UNCHANGED <<cfgVars, run_number, trigger_log_path, active_processes,
                   stop_event, procVars, files, monVars, attempts, sd_ret,
                   sd_list, snap>>

\* main, lines 171-179: open the serial port and start the reader thread;
\* a SerialException leaves both globals as they were
StartSerial ==
    /\ pc = "serial"
    /\ IF serial_config
       THEN \E opened \in BOOLEAN :
              IF opened
              THEN /\ serial_connection' = run_number
                   /\ serial_thread' = run_number
                   /\ ser_open' = ser_open \cup {run_number}
                   /\ thr_alive' = thr_alive \cup {run_number}
              ELSE UNCHANGED serVars
       ELSE UNCHANGED serVars
    /\ idx' = 1
    /\ pc' = "scripts"
    /\ UNCHANGED <<cfgVars, run_number, trigger_log_path, active_processes,
                   stop_event, procVars, files, monVars, attempts, sd_ret,
                   sd_list, exitVars, snap>>

(* --------------------------- execute_script --------------------------- *)
\* execute_script, lines 55-98: what a call can return.  An unsupported type
\* returns the pair (None, None) of line 80; otherwise the log file is opened
\* and the command started, and either step can raise (line 96)
ExecOutcomes(conf) ==
    IF conf.type \in SupportedTypes
    THEN {"started", "open_failed", "popen_failed"}
    ELSE {"pair"}

\* open(log_filename, 'w'), line 84: create or truncate the log file (the
\* model keeps the contents of the trigger script's log only)
Truncate(content, isTrigger) == IF isTrigger THEN <<>> ELSE content

\* main, lines 182-188: one iteration of the for loop over scripts_to_run.
\* Unpacking the pair of line 80 into three names raises ValueError, which
\* nothing catches: the interpreter ends with a traceback
LaunchNext ==
    /\ pc = "scripts"
    /\ IF idx > Len(scripts)
       THEN /\ pc' = "check_trigger"
            /\ UNCHANGED <<idx, active_processes, trigger_log_path, procVars,
                           files, attempts, exitVars>>
       ELSE LET conf == scripts[idx]
                pid == <<run_number, idx>>
                isTrigger == conf.name = TRIGGER_SCRIPT_NAME
            IN  IF ~conf.enabled
                THEN /\ idx' = idx + 1
                     /\ pc' = "scripts"
                     /\ UNCHANGED <<active_processes, trigger_log_path,
                                    procVars, files, attempts, exitVars>>
                ELSE \E out \in ExecOutcomes(conf) :
                       /\ attempts' = Append(attempts, <<idx, out>>)
                       /\ CASE out = "pair" ->
                                 /\ pc' = "done"
                                 /\ exit_via' = "crash"
                                 /\ exit_code' = 1
                                 /\ UNCHANGED <<idx, active_processes,
                                                trigger_log_path, procVars,
                                                files, loop_exit>>
                            [] out = "open_failed" ->
                                 /\ idx' = idx + 1
                                 /\ pc' = "scripts"
                                 /\ UNCHANGED <<active_processes,
                                                trigger_log_path, procVars,
                                                files, exitVars>>
                            [] out = "popen_failed" ->
                                 /\ idx' = idx + 1
                                 /\ pc' = "scripts"
                                 /\ log_exists' = (isTrigger \/ log_exists)
                                 /\ log' = Truncate(log, isTrigger)
                                 /\ UNCHANGED log_readable
                                 /\ UNCHANGED <<active_processes,
                                                trigger_log_path, procVars,
                                                exitVars>>
                            [] out = "started" ->
                                 /\ idx' = idx + 1
                                 /\ pc' = "scripts"
                                 /\ log_exists' = (isTrigger \/ log_exists)
                                 /\ log' = Truncate(log, isTrigger)
                                 /\ UNCHANGED log_readable
                                 /\ alive' = alive \cup {pid}
                                 /\ log_open' = log_open \cup {pid}
                                 /\ UNCHANGED <<log_reclosed, forced>>
                                 /\ active_processes' =
                                        DictSet(active_processes, conf.name, pid)
                                 /\ trigger_log_path' =
                                        IF isTrigger
                                        THEN LogPath(run_number, conf.name)
                                        ELSE trigger_log_path
                                 /\ UNCHANGED exitVars
    /\ UNCHANGED <<cfgVars, run_number, stop_event, serVars, monVars, sd_ret,
                   sd_list, snap>>

\* CheckTrigger without the break of line 192
CheckTrigger_NoBreak ==
    /\ pc = "check_trigger"
    /\ pc' = "mon_exists"
    /\ UNCHANGED <<cfgVars, run_number, trigger_log_path, idx,
                   active_processes, stop_event, serVars, procVars, files,
                   monVars, attempts, sd_ret, sd_list, exitVars, snap>>

\* main, lines 190-196: break when no trigger path was resolved, otherwise
\* call monitor_trigger_file; the break leads to the final cleanup, line 209
CheckTrigger ==
    /\ pc = "check_trigger"
    /\ IF trigger_log_path = NoPath
       THEN /\ loop_exit' = "no_trigger"
            /\ pc' = "sd_set"
            /\ sd_ret' = "exit"
            /\ UNCHANGED monVars
       ELSE /\ pc' = "mon_exists"
            /\ UNCHANGED <<monVars, loop_exit, sd_ret>>
    /\ UNCHANGED <<cfgVars, run_number, trigger_log_path, idx,
                   active_processes, stop_event, serVars, procVars, files,
                   attempts, sd_list, exit_via, exit_code, snap>>

(* ------------------------ monitor_trigger_file ------------------------ *)
\* os.path.exists(log_path)
Exists(path) == path = LogPath(run_number, TRIGGER_SCRIPT_NAME) /\ log_exists

\* MonExists that waits for the file before it looks at stop_event
MonExists_WaitsForFile ==
    /\ pc = "mon_exists"
    /\ Exists(trigger_log_path)
    /\ IF stop_event
       THEN /\ mon_result' = "cancelled"
            /\ pc' = "after_mon"
       ELSE /\ pc' = "mon_open"
            /\ UNCHANGED mon_result
    /\ UNCHANGED <<cfgVars, run_number, trigger_log_path, idx,
                   active_processes, stop_event, serVars, procVars, files,
                   pos, attempts, sd_ret, sd_list, exitVars, snap>>

\* monitor_trigger_file, lines 35-39: wait for the file to exist
MonExists ==
    /\ pc = "mon_exists"
    /\ IF stop_event
       THEN /\ mon_result' = "cancelled"
            /\ pc' = "after_mon"
       ELSE /\ Exists(trigger_log_path)
            /\ pc' = "mon_open"
            /\ UNCHANGED mon_result
    /\ UNCHANGED <<cfgVars, run_number, trigger_log_path, idx,
                   active_processes, stop_event, serVars, procVars, files,
                   pos, attempts, sd_ret, sd_list, exitVars, snap>>

\* monitor_trigger_file, lines 41-42 and 52: open the log for reading from
\* its first character; an exception ends the function
MonOpen ==
    /\ pc = "mon_open"
    /\ IF ~log_readable
       THEN /\ mon_result' = "error"
            /\ pc' = "after_mon"
            /\ UNCHANGED pos
       ELSE /\ pos' = 0
            /\ pc' = "mon_loop"
            /\ UNCHANGED mon_result
    /\ UNCHANGED <<cfgVars, run_number, trigger_log_path, idx,
                   active_processes, stop_event, serVars, procVars, files,
                   attempts, sd_ret, sd_list, exitVars, snap>>

\* monitor_trigger_file, lines 43-52: one turn of the read loop.  An empty
\* readline leads to time.sleep(1) and the next turn, with nothing changed.
\* Every way out of the with block closes the file: its position is gone
MonRead ==
    /\ pc = "mon_loop"
    /\ IF stop_event
       THEN /\ mon_result' = "cancelled"
            /\ pc' = "after_mon"
            /\ pos' = 0
       ELSE IF ~log_readable
            THEN /\ mon_result' = "error"
                 /\ pc' = "after_mon"
                 /\ pos' = 0
            ELSE LET line == ReadLine(log, pos)
                 IN  /\ line # <<>>
                     /\ IF Contains(line, TRIGGER_WORD)
                        THEN /\ mon_result' = "found"
                             /\ pc' = "after_mon"
                             /\ pos' = 0
                        ELSE /\ pc' = "mon_loop"
                             /\ pos' = pos + Len(line)
                             /\ UNCHANGED mon_result
    /\ UNCHANGED <<cfgVars, run_number, trigger_log_path, idx,
                   active_processes, stop_event, serVars, procVars, files,
                   attempts, sd_ret, sd_list, exitVars, snap>>

\* main, lines 199-203: break if stop_event is set, otherwise shut the run
\* down before the next one
AfterMonitor ==
    /\ pc = "after_mon"
    /\ IF stop_event
       THEN /\ loop_exit' = "stop_event"
            /\ sd_ret' = "exit"
       ELSE /\ sd_ret' = "loop"
            /\ UNCHANGED loop_exit
    /\ pc' = "sd_set"
    /\ UNCHANGED <<cfgVars, run_number, trigger_log_path, idx,
                   active_processes, stop_event, serVars, procVars, files,
                   monVars, attempts, sd_list, exit_via, exit_code, snap>>

(* ----------------------- shutdown_all_processes ----------------------- *)
\* line 122: stop_event.set()
SdSet ==
    /\ pc = "sd_set"
    /\ stop_event' = TRUE
    /\ pc' = "sd_serial"
    /\ UNCHANGED <<cfgVars, run_number, trigger_log_path, idx,
                   active_processes, serVars, procVars, files, monVars,
                   attempts, sd_ret, sd_list, exitVars, snap>>

\* SdCloseSerial without the close() of line 125
SdCloseSerial_NoClose ==
    /\ pc = "sd_serial"
    /\ pc' = "sd_join"
    /\ UNCHANGED <<cfgVars, run_number, trigger_log_path, idx,
                   active_processes, stop_event, serVars, procVars, files,
                   monVars, attempts, sd_ret, sd_list, exitVars, snap>>

\* lines 124-126: close the serial connection if there is an open one.
\* close() is called outside any try block: when the device reports an
\* error the exception leaves shutdown_all_processes and main (the except
\* clause of line 215 names KeyboardInterrupt only) and the interpreter
\* ends with a traceback and status 1
SdCloseSerial ==
    /\ pc = "sd_serial"
    /\ IF serial_connection # NoConn /\ serial_connection \in ser_open
       THEN \E raises \in BOOLEAN :
              IF raises
              THEN /\ pc' = "done"
                   /\ exit_via' = "sd_error"
                   /\ exit_code' = 1
                   /\ UNCHANGED ser_open
              ELSE /\ ser_open' = ser_open \ {serial_connection}
                   /\ pc' = "sd_join"
                   /\ UNCHANGED <<exit_via, exit_code>>
       ELSE /\ pc' = "sd_join"
            /\ UNCHANGED <<ser_open, exit_via, exit_code>>
    /\ UNCHANGED <<cfgVars, run_number, trigger_log_path, idx,
                   active_processes, stop_event, serial_connection,
                   serial_thread, thr_alive, procVars, files, monVars,
                   attempts, sd_ret, sd_list, loop_exit, snap>>

\* SdJoin whose join() has no timeout: it returns when the thread has ended
SdJoin_NoTimeout ==
    /\ pc = "sd_join"
    /\ serial_thread \notin thr_alive
    /\ sd_list' = active_processes
    /\ pc' = IF active_processes = <<>> THEN "sd_clear" ELSE "sd_term"
    /\ UNCHANGED <<cfgVars, run_number, trigger_log_path, idx,
                   active_processes, stop_event, serVars, procVars, files,
                   monVars, attempts, sd_ret, exitVars, snap>>

\* SdJoin that goes on to active_processes.clear() without the loop of
\* lines 131-142
SdJoin_SkipsLoop ==
    /\ pc = "sd_join"
    /\ sd_list' = <<>>
    /\ pc' = "sd_clear"
    /\ UNCHANGED <<cfgVars, run_number, trigger_log_path, idx,
                   active_processes, stop_event, serVars, procVars, files,
                   monVars, attempts, sd_ret, exitVars, snap>>

\* lines 128-131: serial_thread.join(timeout=2) returns whether or not the
\* thread has ended; then the loop starts on list(active_processes.items())
SdJoin ==
    /\ pc = "sd_join"
    /\ sd_list' = active_processes
    /\ pc' = IF active_processes = <<>> THEN "sd_clear" ELSE "sd_term"
    /\ UNCHANGED <<cfgVars, run_number, trigger_log_path, idx,
                   active_processes, stop_event, serVars, procVars, files,
                   monVars, attempts, sd_ret, exitVars, snap>>

\* lines 133-136: terminate() and wait(timeout=5).  A child that has ended
\* is left alone; one that is running either ends within the timeout or
\* outlasts it (TimeoutExpired), or the signal cannot be delivered and
\* terminate() raises (the only except clause, line 136, names
\* subprocess.TimeoutExpired), which ends the interpreter with status 1
SdTerminate ==
    /\ pc = "sd_term"
    /\ LET pid == Head(sd_list)[2]
       IN  IF pid \in alive
           THEN \E outcome \in {"exits", "timeout", "raises"} :
                  CASE outcome = "exits" ->
                         /\ alive' = alive \ {pid}
                         /\ pc' = "sd_close"
                         /\ UNCHANGED <<exit_via, exit_code>>
                    [] outcome = "timeout" ->
                         /\ pc' = "sd_kill"
                         /\ UNCHANGED <<alive, exit_via, exit_code>>
                    [] outcome = "raises" ->
                         /\ pc' = "done"
                         /\ exit_via' = "sd_error"
                         /\ exit_code' = 1
                         /\ UNCHANGED alive
           ELSE /\ pc' = "sd_close"
                /\ UNCHANGED <<alive, exit_via, exit_code>>
    /\ UNCHANGED <<cfgVars, run_number, trigger_log_path, idx,
                   active_processes, stop_event, serVars, log_open,
                   log_reclosed, forced, files, monVars, attempts, sd_ret,
                   sd_list, loop_exit, snap>>

\* SdKill without the kill() of line 138
SdKill_NoKill ==
    /\ pc = "sd_kill"
    /\ pc' = "sd_close"
    /\ UNCHANGED <<cfgVars, run_number, trigger_log_path, idx,
                   active_processes, stop_event, serVars, procVars, files,
                   monVars, attempts, sd_ret, sd_list, exitVars, snap>>

\* line 138: kill()
SdKill ==
    /\ pc = "sd_kill"
    /\ alive' = alive \ {Head(sd_list)[2]}
    /\ forced' = TRUE
    /\ pc' = "sd_close"
    /\ UNCHANGED <<cfgVars, run_number, trigger_log_path, idx,
                   active_processes, stop_event, serVars, log_open,
                   log_reclosed, files, monVars, attempts, sd_ret, sd_list, exitVars, snap>>

\* lines 140-141: close the child's log file, then the next item.  The
\* handle is closed whatever its state: nothing tests log_file.closed
SdCloseLog ==
    /\ pc = "sd_close"
    /\ log_open' = log_open \ {Head(sd_list)[2]}
    /\ log_reclosed' = (log_reclosed \/ Head(sd_list)[2] \notin log_open)
    /\ forced' = FALSE
    /\ sd_list' = Tail(sd_list)
    /\ pc' = IF Tail(sd_list) = <<>> THEN "sd_clear" ELSE "sd_term"
    /\ UNCHANGED <<cfgVars, run_number, trigger_log_path, idx,
                   active_processes, stop_event, serVars, alive,
                   files, monVars, attempts, sd_ret, exitVars, snap>>

\* SdClear without the clear() of line 144
SdClear_Keeps ==
    /\ pc = "sd_clear"
    /\ pc' = "sd_reset"
    /\ UNCHANGED <<cfgVars, run_number, trigger_log_path, idx,
                   active_processes, stop_event, serVars, procVars, files,
                   monVars, attempts, sd_ret, sd_list, exitVars, snap>>

\* line 144: active_processes.clear()
SdClear ==
    /\ pc = "sd_clear"
    /\ active_processes' = <<>>
    /\ pc' = "sd_reset"
    /\ UNCHANGED <<cfgVars, run_number, trigger_log_path, idx, stop_event,
                   serVars, procVars, files, monVars, attempts, sd_ret,
                   sd_list, exitVars, snap>>

\* SdReset without the stop_event.clear() of line 145
SdReset_NoClear ==
    /\ pc = "sd_reset"
    /\ CASE sd_ret = "loop" ->
              /\ pc' = "advance"
              /\ UNCHANGED <<exit_via, exit_code>>
         [] sd_ret = "exit" ->
              /\ pc' = "done"
              /\ exit_via' = "return"
              /\ exit_code' = 0
         [] sd_ret = "first" ->
              /\ pc' = "between"
              /\ UNCHANGED <<exit_via, exit_code>>
         [] sd_ret = "second" ->
              /\ pc' = "twice_done"
              /\ UNCHANGED <<exit_via, exit_code>>
    /\ UNCHANGED <<cfgVars, run_number, trigger_log_path, idx,
                   active_processes, stop_event, serVars, procVars, files,
                   monVars, attempts, sd_ret, sd_list, loop_exit, snap>>

\* line 145: stop_event.clear(), and the return to the call site: line 203
\* inside the loop, or line 209, after which main returns and the
\* interpreter ends with status 0, or a caller that calls it twice
SdReset ==
    /\ pc = "sd_reset"
    /\ stop_event' = FALSE
    /\ CASE sd_ret = "loop" ->
              /\ pc' = "advance"
              /\ UNCHANGED <<exit_via, exit_code>>
         [] sd_ret = "exit" ->
              /\ pc' = "done"
              /\ exit_via' = "return"
              /\ exit_code' = 0
         [] sd_ret = "first" ->
              /\ pc' = "between"
              /\ UNCHANGED <<exit_via, exit_code>>
         [] sd_ret = "second" ->
              /\ pc' = "twice_done"
              /\ UNCHANGED <<exit_via, exit_code>>
    /\ UNCHANGED <<cfgVars, run_number, trigger_log_path, idx,
                   active_processes, serVars, procVars, files, monVars,
                   attempts, sd_ret, sd_list, loop_exit, snap>>

\* AdvanceRun without the run_number += 1 of line 204
AdvanceRun_NoIncrement ==
    /\ pc = "advance"
    /\ run_number < MaxRuns
    /\ log_exists' = FALSE
    /\ log' = <<>>
    /\ log_readable' = TRUE
    /\ pc' = "run_start"
    /\ UNCHANGED <<cfgVars, run_number, trigger_log_path, idx,
                   active_processes, stop_event, serVars, procVars, monVars,
                   attempts, sd_ret, sd_list, exitVars, snap>>

\* main, lines 204-205 and 164: run_number += 1, pause, back to the loop
\* head; the log the next run reads lies in run_<run_number>, which does not
\* exist yet (the logs of earlier runs are never read again)
AdvanceRun ==
    /\ pc = "advance"
    /\ run_number < MaxRuns
    /\ run_number' = run_number + 1
    /\ log_exists' = FALSE
    /\ log' = <<>>
    /\ log_readable' = TRUE
    /\ pc' = "run_start"
    /\ UNCHANGED <<cfgVars, trigger_log_path, idx, active_processes,
                   stop_event, serVars, procVars, monVars, attempts,
                   sd_ret, sd_list, exitVars, snap>>

(* ---------------------------- the interrupt --------------------------- *)
\* __main__, lines 212-218: a KeyboardInterrupt raised anywhere in main()
\* (no except clause of main catches it: they name Exception) unwinds to
\* the handler, which sets stop_event; the interpreter then ends, status 0
KeyboardInterrupt ==
    /\ pc \notin {"done", "twice_done"}
    /\ stop_event' = TRUE
    /\ pc' = "done"
    /\ exit_via' = "interrupt"
    /\ exit_code' = 0
    /\ UNCHANGED <<cfgVars, run_number, trigger_log_path, idx,
                   active_processes, serVars, procVars, files, monVars,
                   attempts, sd_ret, sd_list, loop_exit, snap>>

(* --------------------------- the environment -------------------------- *)
\* a launched program ends by itself
ProcExit ==
    \E pid \in alive :
      /\ pc # "done"
      /\ alive' = alive \ {pid}
      /\ UNCHANGED <<cfgVars, pc, run_number, trigger_log_path, idx,
                     active_processes, stop_event, serVars, log_open,
                     log_reclosed, forced, files, monVars, attempts, sd_ret, sd_list,
                     exitVars, snap>>

\* the trigger script's process appends to its log (stdout=log_file, line
\* 88); the operating system delivers its output in pieces of any length
TriggerWrite ==
    \E pid \in alive, c \in Chars :
      /\ pc # "done"
      /\ scripts[pid[2]].name = TRIGGER_SCRIPT_NAME
      /\ pid[1] = run_number
      /\ Len(log) < MaxFile
      /\ log' = Append(log, c)
      /\ UNCHANGED <<cfgVars, pc, run_number, trigger_log_path, idx,
                     active_processes, stop_event, serVars, procVars,
                     log_exists, log_readable, monVars, attempts, sd_ret, sd_list, exitVars, snap>>

\* the log the monitor waits on becomes unreadable: a permission change, a
\* device error, bytes that are not UTF-8 (the open of line 42 is strict)
LogBreaks ==
    /\ pc \in {"mon_exists", "mon_open", "mon_loop"}
    /\ log_readable
    /\ log_readable' = FALSE
    /\ UNCHANGED <<cfgVars, pc, run_number, trigger_log_path, idx,
                   active_processes, stop_event, serVars, procVars,
                   log_exists, log, monVars, attempts, sd_ret, sd_list,
                   exitVars, snap>>

\* SerialThreadExit where only stop_event ends the loop: the closed port
\* does not raise
SerialThreadExit_FlagOnly ==
    \E t \in thr_alive :
      /\ pc # "done"
      /\ stop_event
      /\ thr_alive' = thr_alive \ {t}
      /\ UNCHANGED <<cfgVars, pc, run_number, trigger_log_path, idx,
                     active_processes, stop_event, serial_connection,
                     serial_thread, ser_open, procVars, files, monVars,
                     attempts, sd_ret, sd_list, exitVars, snap>>

\* serial_reader_thread, lines 103-117: the loop ends when stop_event is
\* set (line 105) or when the closed port raises (line 115)
SerialThreadExit ==
    \E t \in thr_alive :
      /\ pc # "done"
      /\ stop_event \/ t \notin ser_open
      /\ thr_alive' = thr_alive \ {t}
      /\ UNCHANGED <<cfgVars, pc, run_number, trigger_log_path, idx,
                     active_processes, stop_event, serial_connection,
                     serial_thread, ser_open, procVars, files, monVars,
                     attempts, sd_ret, sd_list, exitVars, snap>>

(* ------------------- two shutdowns in succession ---------------------- *)
\* what shutdown_all_processes reads and assigns (lines 122-145)
ShutdownView ==
    <<active_processes, stop_event, serial_connection, serial_thread,
      ser_open, alive, log_open>>

MainPcs == {"run_start", "serial", "scripts", "check_trigger", "mon_exists",
            "mon_open", "mon_loop", "after_mon", "advance"}

\* shutdown_all_processes() called where the main thread stands
CallShutdown ==
    /\ pc \in MainPcs
    /\ sd_ret' = "first"
    /\ pc' = "sd_set"
    /\ UNCHANGED <<cfgVars, run_number, trigger_log_path, idx,
                   active_processes, stop_event, serVars, procVars, files,
                   monVars, attempts, sd_list, exitVars, snap>>

\* and called again as soon as it has returned
CallAgain ==
    /\ pc = "between"
    /\ snap' = ShutdownView
    /\ sd_ret' = "second"
    /\ pc' = "sd_set"
    /\ UNCHANGED <<cfgVars, run_number, trigger_log_path, idx,
                   active_processes, stop_event, serVars, procVars, files,
                   monVars, attempts, sd_list, exitVars>>

(* -------------------------- specifications ---------------------------- *)
MainStep ==
    \/ LoadConfig
    \/ StartRun
    \/ StartSerial
    \/ LaunchNext
    \/ CheckTrigger
    \/ MonExists
    \/ MonOpen
    \/ MonRead
    \/ AfterMonitor
    \/ SdSet
    \/ SdCloseSerial
    \/ SdJoin
    \/ SdTerminate
    \/ SdKill
    \/ SdCloseLog
    \/ SdClear
    \/ SdReset
    \/ AdvanceRun

EnvStep ==
    \/ ProcExit
    \/ TriggerWrite
    \/ LogBreaks
    \/ SerialThreadExit

Next ==
    \/ MainStep
    \/ EnvStep
    \/ KeyboardInterrupt

Spec == Init /\ [][Next]_vars

\* the program, uninterrupted, with shutdown_all_processes called twice in
\* succession from wherever the main thread stands
NextTwice ==
    \/ MainStep
    \/ EnvStep
    \/ CallShutdown
    \/ CallAgain

SpecTwice == Init /\ [][NextTwice]_vars

\* the program with no operator interrupt, its main thread always scheduled
NextNoInterrupt ==
    \/ MainStep
    \/ EnvStep

FairSpec == Init /\ [][NextNoInterrupt]_vars /\ WF_vars(MainStep)

\* a configuration with a serial_port block and one script, the trigger
\* script, enabled and of a supported type
InitSerial ==
    /\ Init
    /\ config_ok
    /\ serial_config
    /\ Len(scripts) = 1
    /\ scripts[1].name = TRIGGER_SCRIPT_NAME
    /\ scripts[1].enabled
    /\ scripts[1].type \in SupportedTypes

\* the program with the main thread and the serial reader threads always
\* scheduled: a reader that can leave its loop does so
FairThreadSpec ==
    InitSerial /\ [][Next]_vars /\ WF_vars(MainStep)
        /\ WF_vars(SerialThreadExit)

(* ------------------ monitor_trigger_file on its own ------------------- *)
\* a call monitor_trigger_file(log_path, TRIGGER_WORD, stop_event) with
\* stop_event set or clear, the file missing or present with any contents,
\* readable or not; a present file has the trigger script writing to it
InitMon ==
    /\ config_ok = TRUE
    /\ serial_config = FALSE
    /\ scripts = <<[name |-> TRIGGER_SCRIPT_NAME, enabled |-> TRUE,
                    type |-> "local"]>>
    /\ pc = "mon_exists"
    /\ run_number = 1
    /\ trigger_log_path = LogPath(1, TRIGGER_SCRIPT_NAME)
    /\ idx = 2
    /\ stop_event \in BOOLEAN
    /\ serial_connection = NoConn
    /\ serial_thread = NoConn
    /\ ser_open = {}
    /\ thr_alive = {}
    /\ log_exists \in BOOLEAN
    /\ log \in (IF log_exists THEN SeqsUpTo(Chars, MaxFile) ELSE {<<>>})
    /\ log_readable \in (IF log_exists THEN BOOLEAN ELSE {TRUE})
    /\ alive = (IF log_exists THEN {<<1, 1>>} ELSE {})
    /\ log_open = alive
    /\ active_processes =
          (IF log_exists THEN <<<<TRIGGER_SCRIPT_NAME, <<1, 1>>>>>> ELSE <<>>)
    /\ attempts = (IF log_exists THEN <<<<1, "started">>>> ELSE <<>>)
    /\ log_reclosed = FALSE
    /\ forced = FALSE
    /\ pos = 0
    /\ mon_result = "none"
    /\ sd_ret = "none"
    /\ sd_list = <<>>
    /\ loop_exit = "none"
    /\ exit_via = "none"
    /\ exit_code = -1
    /\ snap = <<>>

NextMon ==
    \/ MonExists
    \/ MonOpen
    \/ MonRead
    \/ TriggerWrite
    \/ LogBreaks

SpecMon == InitMon /\ [][NextMon]_vars

(* ------------- every scripts_to_run list the code accepts ------------- *)
\* the serial reader thread logs to run_<n>/serial.txt (line 174)
SERIAL_LOG_NAME == "serial"

\* names a configuration may give its scripts: the code reads
\* script_conf['name'] (lines 60, 186) and tests nothing about it, neither
\* that it differs from the other names nor from "serial"
NamesAny == {TRIGGER_SCRIPT_NAME, SERIAL_LOG_NAME}

\* enabled scripts of a supported type, under any of these names, names
\* repeated or not
ConfigsAny ==
    SeqsUpTo([name : NamesAny, enabled : {TRUE}, type : {"local"}],
             MaxScripts)

InitAny ==
    /\ config_ok = TRUE
    /\ serial_config \in BOOLEAN
    /\ scripts \in ConfigsAny
    /\ pc = "load"
    /\ run_number = 1
    /\ trigger_log_path = NoPath
    /\ idx = 1
    /\ active_processes = <<>>
    /\ stop_event = FALSE
    /\ serial_connection = NoConn
    /\ serial_thread = NoConn
    /\ ser_open = {}
    /\ thr_alive = {}
    /\ alive = {}
    /\ log_open = {}
    /\ log_reclosed = FALSE
    /\ forced = FALSE
    /\ log_exists = FALSE
    /\ log = <<>>
    /\ log_readable = TRUE
    /\ pos = 0
    /\ mon_result = "none"
    /\ attempts = <<>>
    /\ sd_ret = "none"
    /\ sd_list = <<>>
    /\ loop_exit = "none"
    /\ exit_via = "none"
    /\ exit_code = -1
    /\ snap = <<>>

SpecAnyNames == InitAny /\ [][Next]_vars

(* ------------------------ vocabulary of the claims -------------------- *)
MonPcs == {"mon_exists", "mon_open", "mon_loop"}
SdPcs == {"sd_set", "sd_serial", "sd_join", "sd_term", "sd_kill", "sd_close",
          "sd_clear", "sd_reset"}

\* the lines of a text: its maximal pieces without a newline
Lines(content) ==
    {SubSeq(content, a, b) : <<a, b>> \in
        {ab \in (1..Len(content)) \X (1..Len(content)) :
            /\ ab[1] <= ab[2]
            /\ \A k \in ab[1]..ab[2] : content[k] # "\n"
            /\ ab[1] = 1 \/ content[ab[1] - 1] = "\n"
            /\ ab[2] = Len(content) \/ content[ab[2] + 1] = "\n"}}

HasPhraseLine(content) == \E l \in Lines(content) : Contains(l, TRIGGER_WORD)

\* the children started in the current run
StartedNow ==
    {<<run_number, attempts[k][1]>> : k \in
        {j \in 1..Len(attempts) : attempts[j][2] = "started"}}

Exited == pc = "done"

(* ------------------------------- claims ------------------------------- *)
\* C1: an interrupt that arrives while the main thread waits in
\* monitor_trigger_file ends the controller with every process of the run
\* terminated and active_processes empty.
C1_InterruptInMonitorTerminatesAll ==
    [][(pc \in MonPcs /\ exit_via' = "interrupt")
          => (alive' = {} /\ active_processes' = <<>>)]_vars

\* C2: wherever the interrupt arrives, at exit no launched process is alive,
\* every process log handle is closed and the serial connection is closed.
C2_InterruptAlwaysCleansUp ==
    (Exited /\ exit_via = "interrupt")
        => (alive = {} /\ log_open = {} /\ ser_open = {})

\* C3: with no interrupt and a fairly scheduled main thread, once the
\* trigger script's log of run N holds a line with the trigger phrase while
\* the loop waits on it, run N is shut down and run N+1 starts.
C3_PhraseLeadsToNextRun ==
    \A n \in 1..(MaxRuns - 1) :
        (run_number = n /\ pc \in MonPcs /\ HasPhraseLine(log))
            ~> (run_number = n + 1 /\ alive = {} /\ active_processes = <<>>)

\* C4: a read error in monitor_trigger_file makes the run an interrupted
\* run: the loop is left, run_number is not advanced, no run is started.
C4_ReadErrorEndsTheLoop ==
    (mon_result = "error" /\ pc \in SdPcs \cup {"advance", "run_start"})
        => (sd_ret = "exit" /\ pc \in SdPcs)

\* C5: a launch failure of one enabled spec is contained: the controller
\* does not crash, the failed spec has no entry in active_processes and
\* every other enabled spec is launched.
C5_LaunchFailureContained ==
    /\ exit_via # "crash"
    /\ pc = "check_trigger" =>
          \A i \in 1..Len(scripts) :
              scripts[i].enabled =>
                  \E k \in 1..Len(attempts) :
                      /\ attempts[k][1] = i
                      /\ (attempts[k][2] = "started")
                            <=> (scripts[i].name \in DictKeys(active_processes))

\* C6: monitor_trigger_file returns Found exactly when a line of the log
\* holds the trigger phrase: it never returns Found without one, and it is
\* not still waiting once it has read past one.
C6_FoundIffPhraseLine ==
    /\ (pc = "after_mon" /\ mon_result = "found") => HasPhraseLine(log)
    /\ pc = "mon_loop" => ~HasPhraseLine(SubSeq(log, 1, pos))

C8_NoTriggerGoesToTerminated ==
    [][/\ (pc = "check_trigger" /\ trigger_log_path = NoPath /\ pc' # pc)
            => (pc' = "done" \/ (pc' = "sd_set" /\ sd_ret' = "exit"))
       /\ loop_exit = "no_trigger"
            => /\ run_number' = run_number
               /\ attempts' = attempts
               /\ mon_result' = "none"
               /\ pc' \in SdPcs \cup {"done"}
               /\ sd_ret' = "exit"]_vars

C8_Witness ==
    /\ loop_exit = "no_trigger"
    /\ pc = "sd_reset"
    /\ run_number = 1
    /\ mon_result = "none"

\* C9: the exit status is 0 on an operator-requested exit and non-zero when
\* the configuration cannot be loaded or no trigger source was resolved.
C9_ExitStatus ==
    Exited =>
        /\ exit_via = "interrupt" => exit_code = 0
        /\ exit_via = "config" => exit_code # 0
        /\ (exit_via = "return" /\ loop_exit = "no_trigger") => exit_code # 0

C11_ShutdownStepsSurviveErrors ==
    (Exited /\ exit_via = "sd_error")
        => /\ alive = {}
           /\ log_open = {}
           /\ active_processes = <<>>

\* C12: a failure to open the serial port is not fatal: the controller goes
\* on to launch the scripts of the run with no reader thread started for
\* it, and such a run can reach Found and advance to the next run.
C12_SerialFailureNonFatal ==
    [][(/\ pc = "serial" /\ pc' # "serial"
        /\ serial_config
        /\ serial_connection' # run_number
        /\ exit_via' # "interrupt")
            => /\ pc' = "scripts"
               /\ idx' = 1
               /\ exit_via' = "none"
               /\ thr_alive' = thr_alive
               /\ run_number \notin thr_alive']_vars

C12_Witness ==
    /\ serial_config
    /\ serial_connection = NoConn
    /\ run_number = 2
    /\ pc = "run_start"
    /\ mon_result = "found"

\* C13: once shutdown has dealt with a process (terminate, bounded wait,
\* and kill when the wait expired) that process is not alive; in particular
\* a process that ignored the graceful signal has been killed.
C13_IgnoringProcessIsKilled ==
    /\ pc = "sd_close" => Head(sd_list)[2] \notin alive
    /\ forced => (sd_list # <<>> /\ Head(sd_list)[2] \notin alive)
    /\ pc = "sd_clear" =>
          \A i \in 1..Len(active_processes) :
              active_processes[i][2] \notin alive

C13_Witness ==
    /\ forced
    /\ pc = "sd_close"
    /\ Head(sd_list)[2] \notin alive

\* C14: the log file handle of every launched process is closed exactly
\* once: shutdown has closed it when it clears active_processes, no later
\* pass closes it again, and none is open when the controller exits.
C14_LogHandleClosedOnce ==
    /\ ~log_reclosed
    /\ pc = "sd_clear" =>
          \A i \in 1..Len(active_processes) :
              active_processes[i][2] \notin log_open
    /\ Exited => log_open = {}

\* C15: when stop_event is set at the call of monitor_trigger_file, the
\* function returns Cancelled without waiting and without reading a line,
\* whether or not the file exists or holds the trigger phrase.
C15_StopSetReturnsCancelled ==
    stop_event =>
        /\ pc \in {"mon_exists", "after_mon"}
        /\ pos = 0
        /\ pc = "mon_exists" => (mon_result = "none" /\ ENABLED MonExists)
        /\ pc = "after_mon" => mon_result = "cancelled"

C15_Witness ==
    /\ stop_event
    /\ pc = "after_mon"
    /\ mon_result = "cancelled"
    /\ log_exists
    /\ HasPhraseLine(log)

\* C16: at most one serial connection is open at any time, and none is
\* open when main is about to open the port for a run: the connection of
\* the run before has been closed on every path that leads there.
C16_OneSerialSession ==
    /\ Cardinality(ser_open) <= 1
    /\ pc \in {"run_start", "serial"} => ser_open = {}

C16_Witness ==
    /\ run_number = 2
    /\ serial_connection = 2
    /\ ser_open = {2}
    /\ 1 \in thr_alive

\* C17: run_number is 1 when main starts, never decreases, and grows by
\* exactly 1 at the end of each completed run and at no other step, so
\* every loop iteration after the first starts with a number not used
\* before.
C17_RunNumberMonotone ==
    [][/\ pc = "load" => run_number = 1
       /\ run_number' \in {run_number, run_number + 1}
       /\ run_number' = run_number + 1 => (pc = "advance" /\ sd_ret = "loop")
       /\ (pc' = "run_start" /\ pc # "run_start")
             => \/ (pc = "load" /\ run_number' = 1)
                \/ run_number' = run_number + 1]_vars

C17_Witness ==
    /\ run_number = 2
    /\ pc = "scripts"
    /\ mon_result = "none"

\* C18: runs are strictly sequential: every process that is alive, and
\* every process held in active_processes, was launched in the current
\* run, so when the first process of a run is launched none of the run
\* before is alive or still in the map.
C18_RunsSequential ==
    /\ \A pid \in alive : pid[1] = run_number
    /\ \A i \in 1..Len(active_processes) :
          active_processes[i][2][1] = run_number
    /\ pc \in {"run_start", "serial"} =>
          (alive = {} /\ active_processes = <<>>)

C18_Witness ==
    /\ run_number = 2
    /\ pc = "scripts"
    /\ idx = 2
    /\ alive = {<<2, 1>>}
    /\ Len(active_processes) = 1

\* C19: the steps of one call of shutdown_all_processes come in a fixed
\* order: stop_event is set before the serial connection is closed and the
\* thread joined; the connection is closed and the join over before any
\* process is sent terminate() or kill(); active_processes is cleared only
\* when every process in it has ended and its log file is closed.
C19_ShutdownOrder ==
    [][/\ (pc \in {"sd_serial", "sd_join"} /\ pc' # pc /\ pc' # "done")
             => (stop_event /\ pc' \in {"sd_join", "sd_term", "sd_clear"})
       /\ (pc \in {"sd_term", "sd_kill"} /\ pc' # pc)
             => /\ stop_event
                /\ serial_connection \notin ser_open
       /\ (active_processes # <<>> /\ active_processes' = <<>>)
             => /\ pc = "sd_clear"
                /\ \A i \in 1..Len(active_processes) :
                      /\ active_processes[i][2] \notin alive
                      /\ active_processes[i][2] \notin log_open]_vars

C19_Witness ==
    /\ pc = "sd_reset"
    /\ stop_event
    /\ serial_connection = run_number
    /\ serial_connection \notin ser_open
    /\ Cardinality(StartedNow) = 2
    /\ alive = {}
    /\ log_open = {}
    /\ active_processes = <<>>

\* C20: for each run in which the serial port was opened the connection
\* is closed by shutdown: only the connection of the current run is ever
\* open, every shutdown pass that is past its serial step has left the
\* connection of the globals closed, and none is open when the controller
\* exits.
C20_SerialClosedOnce ==
    /\ ser_open \subseteq {run_number}
    /\ pc \in {"sd_join", "sd_term", "sd_kill", "sd_close", "sd_clear",
               "sd_reset", "advance"}
          => serial_connection \notin ser_open
    /\ Exited => ser_open = {}

\* C21: a serial reader thread whose connection shutdown has closed
\* eventually leaves its loop (or the controller exits and takes the daemon
\* thread with it), also when join(timeout=2) returned with the thread
\* still running and stop_event was cleared before the thread looked at it.
C21_ReaderThreadExits ==
    \A t \in 1..MaxRuns :
        (t \in thr_alive /\ t \notin ser_open)
            ~> (t \notin thr_alive \/ Exited)

C21_Witness ==
    /\ pc = "advance"
    /\ ~stop_event
    /\ serial_connection = 1
    /\ 1 \in thr_alive
    /\ 1 \notin ser_open

\* C22: every entry of active_processes belongs to a spec that is enabled
\* and whose launch succeeded in the current run: no entry for a disabled
\* spec, for a spec whose launch failed, or for a process of an earlier run.
C22_OnlyLaunchedEntries ==
    \A i \in 1..Len(active_processes) :
        LET name == active_processes[i][1]
            pid == active_processes[i][2]
        IN  /\ pid[1] = run_number
            /\ pid[2] \in 1..Len(scripts)
            /\ scripts[pid[2]].name = name
            /\ scripts[pid[2]].enabled
            /\ \E k \in 1..Len(attempts) : attempts[k] = <<pid[2], "started">>

C22_Witness ==
    /\ run_number = 2
    /\ pc = "check_trigger"
    /\ Len(attempts) = 2
    /\ attempts[1][2] = "popen_failed"
    /\ attempts[2][2] = "started"
    /\ Len(active_processes) = 1

\* C23: from line 168 of an iteration on, trigger_log_path is set only if
\* an enabled spec named TRIGGER_SCRIPT_NAME was started in this iteration,
\* and then it is the log of this run; it is None when the iteration goes
\* on to the serial port, whatever the run before had resolved.  (Between
\* line 204 and line 168 the local still holds the old path, unread; after
\* the interpreter has ended there is no local.)
C23_TriggerPathOfThisRun ==
    /\ pc = "serial" => trigger_log_path = NoPath
    /\ (pc \notin {"run_start", "done"} /\ trigger_log_path # NoPath)
          => /\ trigger_log_path = LogPath(run_number, TRIGGER_SCRIPT_NAME)
             /\ \E k \in 1..Len(attempts) :
                   /\ attempts[k][2] = "started"
                   /\ scripts[attempts[k][1]].name = TRIGGER_SCRIPT_NAME
                   /\ scripts[attempts[k][1]].enabled

C23_Witness ==
    /\ run_number = 2
    /\ pc = "check_trigger"
    /\ trigger_log_path = NoPath
    /\ \E k \in 1..Len(attempts) :
          /\ attempts[k][2] = "popen_failed"
          /\ scripts[attempts[k][1]].name = TRIGGER_SCRIPT_NAME

\* what holds a log file open for writing: a child from its start to its
\* end (stdout, line 88), the controller's log_file handle of a child
\* until line 141, a serial reader thread while it runs (line 104)
Writers ==
    {<<"process", pid>> : pid \in alive \cup log_open}
        \cup {<<"thread", t>> : t \in thr_alive}

\* the file a writer writes: run_<run>/<name>.txt (line 61) or
\* run_<run>/serial.txt (line 174)
FileOf(w) ==
    IF w[1] = "process"
    THEN LogPath(w[2][1], scripts[w[2][2]].name)
    ELSE LogPath(w[2], SERIAL_LOG_NAME)

\* C24: every log file has at most one writer at any time: no two
\* processes, and no process together with a serial reader thread, hold
\* the same log file open for writing.
C24_OneWriterPerLog ==
    \A w1, w2 \in Writers : FileOf(w1) = FileOf(w2) => w1 = w2

\* the positions of the enabled specs, in configuration order (lines
\* 182-183), and the positions execute_script was called for in this run
EnabledIdx ==
    SelectSeq([i \in 1..Len(scripts) |-> i], LAMBDA i : scripts[i].enabled)

AttemptedIdx == [k \in 1..Len(attempts) |-> attempts[k][1]]

IsPrefix(a, b) == Len(a) <= Len(b) /\ a = SubSeq(b, 1, Len(a))

\* C25: in each run the launches attempted are those of the enabled specs,
\* in configuration order and never of a disabled spec; a run the operator
\* did not interrupt attempts all of them; the loop goes on to the next
\* spec without waiting for the process it has just started.
C25_AttemptsAreTheEnabledSpecs ==
    /\ pc # "run_start" => IsPrefix(AttemptedIdx, EnabledIdx)
    /\ pc = "scripts" => ENABLED LaunchNext
    /\ \/ pc \in {"check_trigger", "after_mon", "advance"} \cup MonPcs \cup SdPcs
       \/ (Exited /\ exit_via \in {"crash", "return", "sd_error"})
       => AttemptedIdx = EnabledIdx

\* C26: a call of shutdown_all_processes always comes to an end, whatever
\* the processes and the reader thread do: no step of it waits without a
\* bound, so the main thread, when scheduled, leaves the function.
C26_ShutdownTerminates ==
    (pc \in SdPcs) ~> (pc \notin SdPcs)

C26_Witness ==
    /\ pc = "sd_close"
    /\ forced
    /\ Len(sd_list) = 1
    /\ Len(active_processes) = 2
    /\ serial_thread = run_number
    /\ serial_thread \in thr_alive

C28_OneReaderThread ==
    /\ Cardinality(thr_alive) <= 1
    /\ pc = "serial" => thr_alive = {}

\* the children the controller has started that have not ended and that
\* no shutdown has dealt with: their log_file handle is still open
Unterminated == alive \cap log_open

\* the process handles a shutdown pass would visit
DictValues(d) == {d[i][2] : i \in 1..Len(d)}

\* C29: every child the controller has started and not yet terminated has
\* an entry in active_processes, so that a shutdown pass reaches it, for
\* every scripts_to_run the code accepts, names repeated or not.
C29_EveryChildHasAnEntry ==
    Unterminated \subseteq DictValues(active_processes)

\* C30: the end of a launched process never ends the monitoring of a run:
\* when processes started in this run have ended by themselves, the run
\* loop gets past monitor_trigger_file (to shut the run down and advance
\* run_number) only when the trigger phrase has been read; the other way
\* out is the operator's interrupt, which ends the controller.
C30_OnlyThePhraseEndsMonitoring ==
    (pc = "after_mon" /\ StartedNow \ alive # {})
        => mon_result = "found"

====
